---- MODULE Spec2Model ----
(***************************************************************************)
(* Model of the arxi-data loader (services/data_loader.py), its field      *)
(* extractors (utils/data_utils.py) and the three query handlers           *)
(* (api/routes.py).                                                        *)
(*                                                                         *)
(* JSON values are tagged records:                                         *)
(*   [t |-> "none"]            JSON null / Python None                     *)
(*   [t |-> "bool", b |-> _]   JSON true / false                           *)
(*   [t |-> "num",  v |-> _]   JSON integer                                *)
(*   [t |-> "str",  s |-> _]   JSON string, a sequence of characters       *)
(*   [t |-> "list", l |-> _]   JSON array, a sequence of JSON values       *)
(* A key that a record does not have is the field value Missing.           *)
(* Python floats are integers counting thousandths (3.0 is 3000), added    *)
(* exactly; the float nan is the value NaN, which every float operation    *)
(* tests for.                                                              *)
(* A Python dict is a sequence of [k, v] entries in insertion order.       *)
(*                                                                         *)
(* The load is modelled record by record, a query handler step by step.    *)
(* Queries are served while no load is running (create_app() loads before  *)
(* the server starts).  The response cache that flask_caching puts in      *)
(* front of the handlers belongs to that library and is not modelled: a    *)
(* response here is what the handler computes.                             *)
(***************************************************************************)
EXTENDS Integers, Sequences, FiniteSets, TLC

\* ------------------------------------------------------------------------
\* Bounds of the exploration
\* ------------------------------------------------------------------------
MaxCategories == 1
MaxProducts == 2
MaxContacts == 2
MaxSales == 2
MaxRuns == 2

\* the float 1.0, in thousandths
Milli == 10 * 100

\* ------------------------------------------------------------------------
\* JSON values
\* ------------------------------------------------------------------------
Missing == [t |-> "missing"]
None == [t |-> "none"]
Bool(b) == [t |-> "bool", b |-> b]
Num(n) == [t |-> "num", v |-> n]
Str(s) == [t |-> "str", s |-> s]
List(l) == [t |-> "list", l |-> l]

\* Python truthiness: None, False, 0, "" and [] are falsy
Truthy(x) ==
    CASE x.t = "none" -> FALSE
      [] x.t = "bool" -> x.b
      [] x.t = "num" -> x.v # 0
      [] x.t = "str" -> Len(x.s) > 0
      [] x.t = "list" -> Len(x.l) > 0
      [] OTHER -> FALSE

\* a list cannot be a dict key or a set member (TypeError: unhashable)
Hashable(x) == x.t # "list"

\* record.get(key): an absent key reads as None
GetField(x) == IF x = Missing THEN None ELSE x

\* record.get(key, default)
GetFieldOr(x, default) == IF x = Missing THEN default ELSE x

\* ------------------------------------------------------------------------
\* Python dicts, in insertion order
\* ------------------------------------------------------------------------
EmptyDict == <<>>

Keys(d) == {d[i].k : i \in 1..Len(d)}

Has(d, key) == \E i \in 1..Len(d) : d[i].k = key

IndexOf(d, key) == CHOOSE i \in 1..Len(d) : d[i].k = key

\* d.get(key, default)
DictGet(d, key, default) == IF Has(d, key) THEN d[IndexOf(d, key)].v ELSE default

\* d[key] = value: an existing key keeps its position
DictSet(d, key, value) ==
    IF Has(d, key)
    THEN [d EXCEPT ![IndexOf(d, key)] = [k |-> key, v |-> value]]
    ELSE Append(d, [k |-> key, v |-> value])

\* defaultdict.__getitem__: reading an absent key inserts the default
DefaultTouch(d, key, default) ==
    IF Has(d, key) THEN d ELSE Append(d, [k |-> key, v |-> default])

\* the dict as a function, forgetting the insertion order (Python's ==)
AsMap(d) == [key \in Keys(d) |-> DictGet(d, key, None)]

AsMap2(d) == [key \in Keys(d) |-> AsMap(DictGet(d, key, EmptyDict))]

\* ------------------------------------------------------------------------
\* utils/data_utils.py
\* ------------------------------------------------------------------------
extract_id(id_field) ==
    IF id_field.t = "list" /\ Len(id_field.l) > 0 THEN id_field.l[1] ELSE None

Digits == <<"0", "1", "2", "3", "4", "5", "6", "7", "8", "9">>

IsDigit(c) == \E i \in 1..10 : Digits[i] = c

DigitVal(c) == (CHOOSE i \in 1..10 : Digits[i] = c) - 1

AllDigits(s) == \A i \in 1..Len(s) : IsDigit(s[i])

RECURSIVE DecimalVal(_)
DecimalVal(s) ==
    IF Len(s) = 0 THEN 0
    ELSE 10 * DecimalVal(SubSeq(s, 1, Len(s) - 1)) + DigitVal(s[Len(s)])

DotAt(s) == IF \E i \in 1..Len(s) : s[i] = "."
            THEN CHOOSE i \in 1..Len(s) : s[i] = "." ELSE 0

Pad3(s) == IF Len(s) = 1 THEN s \o <<"0", "0">>
           ELSE IF Len(s) = 2 THEN s \o <<"0">> ELSE s

\* the float that is not a number, kept apart from every quantity in
\* thousandths
NaN == 0 - 2^30

IsNaN(x) == x = NaN

\* a > b and a < b on floats: False when either side is not a number
FloatGt(a, b) == ~IsNaN(a) /\ ~IsNaN(b) /\ a > b

FloatLt(a, b) == FloatGt(b, a)

\* a + b on floats
FloatAdd(a, b) == IF IsNaN(a) \/ IsNaN(b) THEN NaN ELSE a + b

\* float(str) for the literals [-]digits[.digits] with at most three
\* fraction digits and for [-]nan; every other string of the inputs is a
\* ValueError
ParseFloat(s) ==
    LET neg == Len(s) > 0 /\ s[1] = "-"
        body == IF neg THEN Tail(s) ELSE s
        dot == DotAt(body)
        ip == IF dot = 0 THEN body ELSE SubSeq(body, 1, dot - 1)
        fp == IF dot = 0 THEN <<>> ELSE SubSeq(body, dot + 1, Len(body))
        ok == /\ Len(ip) > 0 /\ AllDigits(ip)
              /\ (dot = 0 \/ (Len(fp) \in 1..3 /\ AllDigits(fp)))
        mag == DecimalVal(ip) * Milli + (IF dot = 0 THEN 0 ELSE DecimalVal(Pad3(fp)))
    IN  IF body = <<"n", "a", "n">> THEN [ok |-> TRUE, v |-> NaN]
        ELSE [ok |-> ok, v |-> IF ok THEN (IF neg THEN 0 - mag ELSE mag) ELSE 0]

\* float(value): ok = FALSE is the TypeError / ValueError
ToFloat(value) ==
    CASE value.t = "num" -> [ok |-> TRUE, v |-> value.v * Milli]
      [] value.t = "bool" -> [ok |-> TRUE, v |-> IF value.b THEN Milli ELSE 0]
      [] value.t = "str" -> ParseFloat(value.s)
      [] OTHER -> [ok |-> FALSE, v |-> 0]

\* max(a, b): b only when b > a, so a float that is not a number in the
\* first place stays
Max2(a, b) == IF FloatGt(b, a) THEN b ELSE a

validate_numeric(value, default) ==
    LET f == ToFloat(value)
    IN  IF f.ok THEN Max2(f.v, 0) ELSE default

\* ------------------------------------------------------------------------
\* String literals of the code
\* ------------------------------------------------------------------------
NoParent == <<"N", "o", " ", "P", "a", "r", "e", "n", "t">>
UnnamedCategory == <<"U", "n", "n", "a", "m", "e", "d", " ", "C", "a", "t", "e", "g", "o", "r", "y">>
Unknown == <<"U", "n", "k", "n", "o", "w", "n">>
UnknownCategory == <<"U", "n", "k", "n", "o", "w", "n", " ", "C", "a", "t", "e", "g", "o", "r", "y">>
UnknownProduct == <<"U", "n", "k", "n", "o", "w", "n", " ", "P", "r", "o", "d", "u", "c", "t">>
unknown == <<"u", "n", "k", "n", "o", "w", "n">>
XX == <<"X", "X">>
Prefix2024 == <<"2", "0", "2", "4">>

\* str.startswith
StartsWith(s, prefix) ==
    Len(s) >= Len(prefix) /\ SubSeq(s, 1, Len(prefix)) = prefix

\* ------------------------------------------------------------------------
\* DataLoader.__init__: the store
\* ------------------------------------------------------------------------
NewDataLoader ==
    [categories |-> EmptyDict,
     products |-> EmptyDict,
     contacts |-> EmptyDict,
     category_index |-> EmptyDict,
     product_category_map |-> EmptyDict,
     category_sales |-> EmptyDict,
     category_product_sales |-> EmptyDict,
     country_product_sales |-> EmptyDict,
     client_products |-> EmptyDict,
     contact_country_map |-> EmptyDict,
     country_code_map |-> EmptyDict]

\* the outcome of a per-record transform: the store it leaves and whether
\* it raised (a raise inside load() becomes a DataLoaderException)
Raised(d) == [raised |-> TRUE, dl |-> d]
Returned(d) == [raised |-> FALSE, dl |-> d]

\* ------------------------------------------------------------------------
\* CategoryLoadStrategy._process_category
\* ------------------------------------------------------------------------
_process_category(category, d) ==
    LET parent_info == GetField(category.parent_id)
        parent_name == IF parent_info.t = "bool" /\ parent_info.b
                       THEN Str(NoParent) ELSE None
        d1 == [d EXCEPT !.categories = DictSet(@, category.id, category)]
    IN  IF category.id = Missing \/ ~Hashable(category.id) THEN Raised(d)
        ELSE IF category.name = Missing THEN Raised(d1)
        ELSE Returned([d1 EXCEPT !.category_index =
                 DictSet(@, category.id,
                         [name |-> category.name, parent |-> parent_name])])

\* ------------------------------------------------------------------------
\* ProductLoadStrategy._process_product
\* ------------------------------------------------------------------------
_process_product(product, d) ==
    LET categ_info == GetField(product.categ_id)
        d1 == [d EXCEPT !.products = DictSet(@, product.id, product)]
    IN  IF product.id = Missing \/ ~Hashable(product.id) THEN Raised(d)
        ELSE IF categ_info.t = "list"
        THEN Returned([d1 EXCEPT !.product_category_map =
                 DictSet(@, product.id,
                         [id |-> IF Len(categ_info.l) > 0
                                 THEN categ_info.l[1] ELSE None,
                          name |-> IF Len(categ_info.l) > 1
                                   THEN categ_info.l[2]
                                   ELSE Str(UnnamedCategory)])])
        ELSE Returned(d1)

\* _process_contact with the conflict check dropped: the last code wins
_process_contact_LastWins(contact, d) ==
    LET contact_id == contact.id
        country_info == GetField(contact.country_id)
        d1 == [d EXCEPT !.contacts = DictSet(@, contact_id, contact)]
        d2 == [d1 EXCEPT !.contact_country_map =
                  DictSet(@, contact_id,
                          [code |-> country_info.l[1], name |-> country_info.l[2]])]
    IN  IF contact_id = Missing \/ ~Hashable(contact_id) THEN Raised(d)
        ELSE IF country_info.t = "list" /\ Len(country_info.l) > 1
        THEN IF ~Hashable(country_info.l[2]) THEN Raised(d2)
             ELSE Returned([d2 EXCEPT !.country_code_map =
                      DictSet(@, country_info.l[2], country_info.l[1])])
        ELSE Returned(d1)

\* ------------------------------------------------------------------------
\* ContactLoadStrategy._process_contact
\* ------------------------------------------------------------------------
_process_contact(contact, d) ==
    LET contact_id == contact.id
        country_info == GetField(contact.country_id)
        d1 == [d EXCEPT !.contacts = DictSet(@, contact_id, contact)]
        country_name == country_info.l[2]
        country_code == country_info.l[1]
        d2 == [d1 EXCEPT !.contact_country_map =
                  DictSet(@, contact_id,
                          [code |-> country_code, name |-> country_name])]
    IN  IF contact_id = Missing \/ ~Hashable(contact_id) THEN Raised(d)
        ELSE IF country_info.t = "list" /\ Len(country_info.l) > 1
        THEN IF ~Hashable(country_name) THEN Raised(d2)
             ELSE IF Has(d2.country_code_map, country_name)
             THEN Returned(d2)
             ELSE Returned([d2 EXCEPT !.country_code_map =
                      DictSet(@, country_name, country_code)])
        ELSE Returned(d1)

\* ------------------------------------------------------------------------
\* SalesLoadStrategy._process_sale
\* ------------------------------------------------------------------------
\* d[key] += quantity on a defaultdict(float)
AddFloat(d, key, quantity) ==
    DictSet(d, key, FloatAdd(DictGet(d, key, 0), quantity))

\* d[outer][inner] += quantity on a defaultdict of defaultdict(float)
AddFloat2(d, outer, inner, quantity) ==
    DictSet(d, outer, AddFloat(DictGet(d, outer, EmptyDict), inner, quantity))

\* d[key].add(member) on a defaultdict(set)
AddMember(d, key, member) ==
    DictSet(d, key, DictGet(d, key, {}) \cup {member})

_process_sale(sale, d) ==
    LET create_date == GetFieldOr(sale.create_date, Str(<<>>))
        product_id == extract_id(GetField(sale.product_id))
        customer_id == extract_id(GetField(sale.order_partner_id))
        quantity == validate_numeric(GetFieldOr(sale.product_uom_qty, Num(0)), 0)
        country_data == DictGet(d.contact_country_map, customer_id, Missing)
        country_name == IF country_data = Missing THEN Str(Unknown)
                        ELSE country_data.name
        category == DictGet(d.product_category_map, product_id, Missing)
        category_id == IF category = Missing THEN None ELSE category.id
        d1 == IF Truthy(category_id)
              THEN [d EXCEPT
                     !.category_sales = AddFloat(@, category_id, quantity),
                     !.category_product_sales =
                          AddFloat2(@, category_id, product_id, quantity)]
              ELSE d
        d2 == [d1 EXCEPT !.country_product_sales =
                  AddFloat2(@, country_name, product_id, quantity)]
        d3 == IF Truthy(customer_id)
              THEN [d2 EXCEPT !.client_products =
                       AddMember(@, customer_id, product_id)]
              ELSE d2
    IN  IF create_date.t # "str" THEN Raised(d)
        ELSE IF ~StartsWith(create_date.s, Prefix2024) THEN Returned(d)
        ELSE IF ~Truthy(product_id) THEN Returned(d)
        ELSE IF ~Hashable(customer_id) \/ ~Hashable(product_id) THEN Raised(d)
        ELSE IF Truthy(category_id) /\ ~Hashable(category_id) THEN Raised(d)
        ELSE IF ~Hashable(country_name) THEN Raised(d1)
        ELSE Returned(d3)

\* ------------------------------------------------------------------------
\* Input files: the records of the four JSON arrays
\* ------------------------------------------------------------------------
Drinks == <<"D", "r", "i", "n", "k", "s">>
Food == <<"F", "o", "o", "d">>
Cola == <<"C", "o", "l", "a">>
Tea == <<"T", "e", "a">>
Bread == <<"B", "r", "e", "a", "d">>
Milk == <<"M", "i", "l", "k">>
Bob == <<"B", "o", "b">>
Al == <<"A", "l">>
Cy == <<"C", "y">>
Zero == <<"Z", "e", "r", "o">>
France == <<"F", "r", "a", "n", "c", "e">>
Date2024 == <<"2", "0", "2", "4", "-", "0", "1">>
Date2023 == <<"2", "0", "2", "3", "-", "1", "2">>

Category(id, name, parent_id) ==
    [id |-> id, name |-> name, parent_id |-> parent_id]

Product(id, name, categ_id) ==
    [id |-> id, name |-> name, categ_id |-> categ_id]

Contact(id, name, country_id) ==
    [id |-> id, name |-> name, country_id |-> country_id]

Sale(create_date, product_id, order_partner_id, product_uom_qty) ==
    [create_date |-> create_date, product_id |-> product_id,
     order_partner_id |-> order_partner_id, product_uom_qty |-> product_uom_qty]

CatDrinks == Category(Num(1), Str(Drinks), Bool(TRUE))
CatFood == Category(Num(2), Str(Food), Bool(FALSE))
CatNoName == Category(Num(3), Missing, Bool(FALSE))
CategoryRecs == {CatDrinks, CatFood, CatNoName}

ProdCola == Product(Num(10), Str(Cola), List(<<Num(1), Str(Drinks)>>))
ProdColaNoCat == Product(Num(10), Str(Cola), Bool(FALSE))
ProdTea == Product(Num(11), Str(Tea), List(<<Num(1)>>))
ProdBread == Product(Num(12), Str(Bread), List(<<Num(2), Str(Food)>>))
ProdMilk == Product(Num(13), Str(Milk), List(<<>>))
ProdNoId == Product(Missing, Str(Milk), Bool(FALSE))
ProductRecs == {ProdCola, ProdColaNoCat, ProdTea, ProdBread, ProdMilk, ProdNoId}

ContBob == Contact(Num(5), Str(Bob), List(<<Num(75), Str(France)>>))
ContAl == Contact(Num(6), Str(Al), List(<<Num(76), Str(France)>>))
ContCy == Contact(Num(7), Str(Cy), Bool(FALSE))
ContNoId == Contact(Missing, Str(Cy), Bool(FALSE))
ContactRecs == {ContBob, ContAl, ContCy, ContNoId}

RefCola == List(<<Num(10), Str(Cola)>>)
RefTea == List(<<Num(11), Str(Tea)>>)
RefBread == List(<<Num(12), Str(Bread)>>)
RefZero == List(<<Num(0), Str(Zero)>>)
RefBob == List(<<Num(5), Str(Bob)>>)
RefAl == List(<<Num(6), Str(Al)>>)

SaleCola == Sale(Str(Date2024), RefCola, RefBob, Num(3))
SaleTea == Sale(Str(Date2024), RefTea, RefBob, Str(<<"3">>))
SaleBread == Sale(Str(Date2024), RefBread, RefAl, Str(<<"1", ".", "0", "0", "4">>))
SaleOld == Sale(Str(Date2023), RefCola, RefBob, Num(3))
SaleDateFalse == Sale(Bool(FALSE), RefCola, RefBob, Num(3))
SaleNoDate == Sale(Missing, RefCola, RefBob, Num(3))
SaleProductZero == Sale(Str(Date2024), RefZero, RefBob, Num(3))
SaleCustomerZero == Sale(Str(Date2024), RefCola, RefZero, Num(3))
SaleNegative == Sale(Str(Date2024), RefCola, Missing, Str(<<"-", "7">>))
SaleNoProduct == Sale(Str(Date2024), Bool(FALSE), RefBob, Num(3))
SaleBadQty == Sale(Str(Date2024), RefTea, RefAl, Str(<<"a", "b", "c">>))
SaleNaN == Sale(Str(Date2024), RefCola, RefBob, Str(<<"n", "a", "n">>))
SaleRecs == {SaleCola, SaleTea, SaleBread, SaleOld, SaleDateFalse, SaleNoDate,
             SaleProductZero, SaleCustomerZero, SaleNegative, SaleNoProduct,
             SaleBadQty}

SeqsUpTo(S, n) == UNION {[1..m -> S] : m \in 0..n}

\* a file is the records its stream yields and whether the stream then
\* raises (file missing or unreadable, JSON syntax error) instead of ending
File(recs) == [recs |-> recs, bad |-> FALSE]
BadFile(recs) == [recs |-> recs, bad |-> TRUE]

FilesOver(S, n) ==
    {File(r) : r \in SeqsUpTo(S, n)} \cup {BadFile(r) : r \in SeqsUpTo(S, 1)}

Inputs(cs, ps, ks, ss) ==
    {[categories |-> c, products |-> p, contacts |-> k, sales |-> s] :
        c \in cs, p \in ps, k \in ks, s \in ss}

BaseCategories == {File(<<CatDrinks>>)}
BaseProducts == {File(<<ProdCola, ProdTea>>), File(<<ProdCola, ProdBread>>)}
BaseContacts == {File(<<ContBob>>)}
BaseSales == {File(<<SaleCola>>), File(<<SaleBread, SaleCola>>)}

\* every file of one kind, against the base files of the other kinds
InputFiles ==
    Inputs(BaseCategories, BaseProducts, BaseContacts, FilesOver(SaleRecs, MaxSales))
    \cup Inputs(BaseCategories, FilesOver(ProductRecs, MaxProducts), BaseContacts, BaseSales)
    \cup Inputs(BaseCategories, BaseProducts, FilesOver(ContactRecs, MaxContacts), BaseSales)
    \cup Inputs(FilesOver(CategoryRecs, MaxCategories), BaseProducts, BaseContacts, BaseSales)

\* the sale records that differ in their quantity: a number, a numeric
\* string, a negative one, a string that is no number, and "nan"
QuantitySaleRecs == {SaleCola, SaleTea, SaleNegative, SaleBadQty, SaleNaN}

\* InputFiles and every sales file over QuantitySaleRecs
QuantityFiles ==
    InputFiles
    \cup Inputs(BaseCategories, BaseProducts, BaseContacts,
                FilesOver(QuantitySaleRecs, MaxSales))

\* ------------------------------------------------------------------------
\* State
\* ------------------------------------------------------------------------
VARIABLES
    files,   \* the four input files, unchanged for the whole behaviour
    dl,      \* data_loader_instance
    state,   \* the orchestrator: NotStarted, Loading<Stage>, Ready, Failed
    pos,     \* number of records the running stage has consumed
    run,     \* number of calls of initialize_data() so far
    done,    \* the stages that completed without error in this call
    snap,    \* the store as the first call of initialize_data() left it
    qc,      \* the most_sold_by_category request in flight, if any
    resp     \* the last response a query handler returned

vars == <<files, dl, state, pos, run, done, snap, qc, resp>>

NoResponse == [ep |-> "none", status |-> 0, body |-> <<>>]
Response(ep, status, body) == [ep |-> ep, status |-> status, body |-> body]

QcIdle == [pc |-> "idle", i |-> 0, results |-> <<>>]

Init ==
    /\ files \in InputFiles
    /\ dl = NewDataLoader
    /\ state = "NotStarted"
    /\ pos = 0
    /\ run = 0
    /\ done = {}
    /\ snap = NewDataLoader
    /\ qc = QcIdle
    /\ resp = NoResponse

Loading == state \in {"LoadingCategories", "LoadingProducts",
                      "LoadingContacts", "LoadingSales"}

\* ------------------------------------------------------------------------
\* DataLoader.initialize_data and the four load() loops
\* ------------------------------------------------------------------------
\* initialize_data() is called on the module-level instance; nothing is
\* reset, the loop enters its first stage
initialize_data ==
    /\ ~Loading
    /\ qc.pc = "idle"
    /\ run < MaxRuns
    /\ run' = run + 1
    /\ state' = "LoadingCategories"
    /\ pos' = 0
    /\ done' = {}
    /\ resp' = NoResponse
    /\ UNCHANGED <<files, dl, snap, qc>>

\* the stream yields a record and the transform returns
StageRecord(stage, file, outcome) ==
    /\ state = stage
    /\ pos < Len(file.recs)
    /\ ~outcome.raised
    /\ dl' = outcome.dl
    /\ pos' = pos + 1
    /\ UNCHANGED <<files, state, run, done, snap, qc, resp>>

\* the stage after a stage of the loop
StageAfter(stage) ==
    CASE stage = "LoadingCategories" -> "LoadingProducts"
      [] stage = "LoadingProducts" -> "LoadingContacts"
      [] stage = "LoadingContacts" -> "LoadingSales"
      [] OTHER -> "Ready"

\* StageFail with the exception swallowed: the loop goes on to the next stage
StageFail_Swallowed(stage, file, outcome) ==
    /\ state = stage
    /\ IF pos < Len(file.recs) THEN outcome.raised ELSE file.bad
    /\ dl' = IF pos < Len(file.recs) THEN outcome.dl ELSE dl
    /\ state' = StageAfter(stage)
    /\ pos' = 0
    /\ UNCHANGED <<files, run, done, snap, qc, resp>>

\* the transform raises, or the stream raises where it should yield or end:
\* load() wraps it in a DataLoaderException, initialize_data() re-raises
StageFail(stage, file, outcome) ==
    /\ state = stage
    /\ IF pos < Len(file.recs) THEN outcome.raised ELSE file.bad
    /\ dl' = IF pos < Len(file.recs) THEN outcome.dl ELSE dl
    /\ state' = "Failed"
    /\ UNCHANGED <<files, pos, run, done, snap, qc, resp>>

\* the stream ends: load() returns and the loop moves on
StageDone(stage, file, name, next) ==
    /\ state = stage
    /\ pos = Len(file.recs)
    /\ ~file.bad
    /\ state' = next
    /\ pos' = 0
    /\ done' = done \cup {name}
    /\ snap' = IF next = "Ready" /\ run = 1 THEN dl ELSE snap
    /\ UNCHANGED <<files, dl, run, qc, resp>>

NextRecord(file) == file.recs[pos + 1]

CategoryRecord ==
    StageRecord("LoadingCategories", files.categories,
                _process_category(NextRecord(files.categories), dl))
CategoryFail ==
    StageFail("LoadingCategories", files.categories,
              _process_category(NextRecord(files.categories), dl))
CategoryDone ==
    StageDone("LoadingCategories", files.categories, "categories", "LoadingProducts")

ProductRecord ==
    StageRecord("LoadingProducts", files.products,
                _process_product(NextRecord(files.products), dl))
ProductFail ==
    StageFail("LoadingProducts", files.products,
              _process_product(NextRecord(files.products), dl))
ProductDone ==
    StageDone("LoadingProducts", files.products, "products", "LoadingContacts")

ContactRecord ==
    StageRecord("LoadingContacts", files.contacts,
                _process_contact(NextRecord(files.contacts), dl))
ContactFail ==
    StageFail("LoadingContacts", files.contacts,
              _process_contact(NextRecord(files.contacts), dl))
ContactDone ==
    StageDone("LoadingContacts", files.contacts, "contacts", "LoadingSales")

SaleRecord ==
    StageRecord("LoadingSales", files.sales,
                _process_sale(NextRecord(files.sales), dl))
SaleFail ==
    StageFail("LoadingSales", files.sales,
              _process_sale(NextRecord(files.sales), dl))
SaleDone ==
    StageDone("LoadingSales", files.sales, "sales", "Ready")

\* ------------------------------------------------------------------------
\* api/routes.py: the query handlers
\* ------------------------------------------------------------------------
\* round(x, 2) of a non-negative float: to the nearest hundredth, a tie to
\* the even hundredth; of the float that is not a number, itself
Round2(x) ==
    LET q == x \div 10
        r == x % 10
    IN  IF IsNaN(x) THEN NaN
        ELSE IF r < 5 THEN 10 * q
        ELSE IF r > 5 THEN 10 * (q + 1)
        ELSE IF q % 2 = 0 THEN 10 * q ELSE 10 * (q + 1)

\* validate_data_loaded() raises the 503 DataLoaderException
DataNotLoaded(d) == Len(d.category_sales) = 0

\* MaxIndex keeping the last of the largest keys
RECURSIVE MaxIndex_Last(_, _)
MaxIndex_Last(keys, n) ==
    IF n <= 1 THEN 1
    ELSE LET m == MaxIndex_Last(keys, n - 1)
         IN  IF keys[n] >= keys[m] THEN n ELSE m

\* max(items, key=...): the index of the first of the largest keys
RECURSIVE MaxIndex(_, _)
MaxIndex(keys, n) ==
    IF n <= 1 THEN 1
    ELSE LET m == MaxIndex(keys, n - 1)
         IN  IF FloatGt(keys[n], keys[m]) THEN n ELSE m

\* max(d.items(), key=lambda x: x[1])
PyMaxValue(d) == d[MaxIndex([i \in 1..Len(d) |-> d[i].v], Len(d))]

\* max(d.items(), key=lambda x: len(x[1]))
PyMaxSize(d) == d[MaxIndex([i \in 1..Len(d) |-> Cardinality(d[i].v)], Len(d))]

\* row.get('name', default) on the row found by table.get(key, {})
NameOf(table, key, default) ==
    LET row == DictGet(table, key, Missing)
    IN  IF row = Missing THEN Str(default)
        ELSE GetFieldOr(row.name, Str(default))

\* sorted(results, key=category_total, reverse=True): stable
InsertDesc(sorted, x) ==
    LET before == {i \in 1..Len(sorted) :
                      FloatLt(sorted[i].category_total, x.category_total)}
        at == IF before = {} THEN Len(sorted) + 1
              ELSE CHOOSE i \in before : \A j \in before : i <= j
    IN  SubSeq(sorted, 1, at - 1) \o <<x>> \o SubSeq(sorted, at, Len(sorted))

RECURSIVE SortedDesc(_)
SortedDesc(results) ==
    IF Len(results) <= 1 THEN results
    ELSE InsertDesc(SortedDesc(SubSeq(results, 1, Len(results) - 1)),
                    results[Len(results)])

\* get_most_sold_by_category: validate_data_loaded(), then the loop is
\* entered; a 503 is returned when the validation raises
get_most_sold_by_category_Begin ==
    /\ ~Loading
    /\ qc.pc = "idle"
    /\ IF DataNotLoaded(dl)
       THEN /\ resp' = Response("category", 503, <<>>)
            /\ qc' = qc
       ELSE /\ qc' = [pc |-> "iter", i |-> 0, results |-> <<>>]
            /\ resp' = resp
    /\ UNCHANGED <<files, dl, state, pos, run, done, snap>>

\* the row one iteration of the loop appends
CategoryRow(d, cat_id, products) ==
    LET top == PyMaxValue(products)
    IN  [category_id |-> cat_id,
         category_name |-> NameOf(d.category_index, cat_id, UnknownCategory),
         top_product |-> NameOf(d.products, top.k, UnknownProduct),
         total_quantity |-> Round2(top.v),
         category_total |-> Round2(DictGet(d.category_sales, cat_id, 0))]

\* CategoryRead indexing category_sales by the category's name
CategoryRead_ByName(d, cat_id) ==
    [d EXCEPT !.category_sales =
        DefaultTouch(@, NameOf(d.category_index, cat_id, UnknownCategory), 0)]

\* the store after the iteration: category_sales[cat_id] is a defaultdict read
CategoryRead(d, cat_id) ==
    [d EXCEPT !.category_sales = DefaultTouch(@, cat_id, 0)]

\* one iteration of the loop over category_product_sales.items()
get_most_sold_by_category_Step ==
    /\ qc.pc = "iter"
    /\ qc.i < Len(dl.category_product_sales)
    /\ LET entry == dl.category_product_sales[qc.i + 1]
       IN  IF Len(entry.v) = 0
           THEN /\ qc' = [qc EXCEPT !.i = @ + 1]
                /\ dl' = dl
           ELSE /\ qc' = [qc EXCEPT !.i = @ + 1,
                             !.results = Append(@, CategoryRow(dl, entry.k, entry.v))]
                /\ dl' = CategoryRead(dl, entry.k)
    /\ UNCHANGED <<files, state, pos, run, done, snap, resp>>

\* the loop is over: the sorted rows are returned
get_most_sold_by_category_End ==
    /\ qc.pc = "iter"
    /\ qc.i = Len(dl.category_product_sales)
    /\ resp' = Response("category", 200, SortedDesc(qc.results))
    /\ qc' = QcIdle
    /\ UNCHANGED <<files, dl, state, pos, run, done, snap>>

\* the list comprehension of get_most_sold_by_country
RECURSIVE CountryRows(_, _)
CountryRows(d, n) ==
    IF n = 0 THEN <<>>
    ELSE LET entry == d.country_product_sales[n]
             max_product == PyMaxValue(entry.v)
             row == [country |-> entry.k,
                     product_id |-> max_product.k,
                     product_name |-> NameOf(d.products, max_product.k, unknown),
                     total_quantity |-> Round2(max_product.v),
                     country_code |-> DictGet(d.country_code_map, entry.k, Str(XX))]
         IN  IF Len(entry.v) = 0 THEN CountryRows(d, n - 1)
             ELSE Append(CountryRows(d, n - 1), row)

get_most_sold_by_country ==
    /\ ~Loading
    /\ resp' = Response("country", 200,
                        CountryRows(dl, Len(dl.country_product_sales)))
    /\ UNCHANGED <<files, dl, state, pos, run, done, snap, qc>>

\* the store after get_top_client: client_products[client_id] is a
\* defaultdict read
ClientRead(d, client_id) ==
    [d EXCEPT !.client_products = DefaultTouch(@, client_id, {})]

get_top_client ==
    /\ ~Loading
    /\ IF Len(dl.client_products) = 0
       THEN /\ resp' = Response("client", 404, <<>>)
            /\ dl' = dl
       ELSE LET top == PyMaxSize(dl.client_products)
                after == ClientRead(dl, top.k)
            IN  /\ resp' = Response("client", 200,
                     <<[client_id |-> top.k,
                        client_name |-> NameOf(dl.contacts, top.k, unknown),
                        unique_products |->
                            Cardinality(DictGet(after.client_products, top.k, {}))]>>)
                /\ dl' = after
    /\ UNCHANGED <<files, state, pos, run, done, snap, qc>>

\* ------------------------------------------------------------------------
\* Specification
\* ------------------------------------------------------------------------
Next ==
    \/ initialize_data
    \/ CategoryRecord
    \/ CategoryFail
    \/ CategoryDone
    \/ ProductRecord
    \/ ProductFail
    \/ ProductDone
    \/ ContactRecord
    \/ ContactFail
    \/ ContactDone
    \/ SaleRecord
    \/ SaleFail
    \/ SaleDone
    \/ get_most_sold_by_category_Begin
    \/ get_most_sold_by_category_Step
    \/ get_most_sold_by_category_End
    \/ get_most_sold_by_country
    \/ get_top_client

Spec == Init /\ [][Next]_vars

\* the same program over QuantityFiles
InitQuantities ==
    /\ files \in QuantityFiles
    /\ dl = NewDataLoader
    /\ state = "NotStarted"
    /\ pos = 0
    /\ run = 0
    /\ done = {}
    /\ snap = NewDataLoader
    /\ qc = QcIdle
    /\ resp = NoResponse

SpecQuantities == InitQuantities /\ [][Next]_vars

\* ------------------------------------------------------------------------
\* Helpers of the properties
\* ------------------------------------------------------------------------
AllStages == {"categories", "products", "contacts", "sales"}

\* the two stores are equal as Python compares them
StoreEq(a, b) ==
    /\ AsMap(a.categories) = AsMap(b.categories)
    /\ AsMap(a.products) = AsMap(b.products)
    /\ AsMap(a.contacts) = AsMap(b.contacts)
    /\ AsMap(a.category_index) = AsMap(b.category_index)
    /\ AsMap(a.product_category_map) = AsMap(b.product_category_map)
    /\ AsMap(a.contact_country_map) = AsMap(b.contact_country_map)
    /\ AsMap(a.country_code_map) = AsMap(b.country_code_map)
    /\ AsMap(a.category_sales) = AsMap(b.category_sales)
    /\ AsMap2(a.category_product_sales) = AsMap2(b.category_product_sales)
    /\ AsMap2(a.country_product_sales) = AsMap2(b.country_product_sales)
    /\ AsMap(a.client_products) = AsMap(b.client_products)

\* the four aggregates of a store, as Python compares them
Aggregates(d) ==
    <<AsMap(d.category_sales), AsMap2(d.category_product_sales),
      AsMap2(d.country_product_sales), AsMap(d.client_products)>>

\* the sales stage is about to read a record
AtSale == state = "LoadingSales" /\ pos < Len(files.sales.recs)

\* the period filter as the specification words it
InPeriod(sale) ==
    /\ sale.create_date # Missing
    /\ sale.create_date.t = "str"
    /\ StartsWith(sale.create_date.s, Prefix2024)

\* ------------------------------------------------------------------------
\* C1: re-running initialize_data() on the same DataLoader with unchanged
\* input files leaves a store equal to the store after the first run, every
\* reference table and every aggregate (rebuilt, not merged).
\* ------------------------------------------------------------------------
C1_RerunEqualsFirstRun ==
    (state = "Ready" /\ run >= 2) => StoreEq(dl, snap)

\* ------------------------------------------------------------------------
\* C2: initialize_data() runs categories, products, contacts, sales in this
\* order, one at a time; the sales stage consumes a record only after the
\* three earlier stages completed without error; after a stage fails no
\* later stage starts in that call, Failed is left only by a new call, and
\* Ready is entered only from the sales stage with all four stages done.
\* ------------------------------------------------------------------------
C2_StagesInOrder ==
    [][/\ (state = "LoadingSales" /\ pos' # pos)
              => {"categories", "products", "contacts"} \subseteq done
       /\ (state' = "LoadingProducts" /\ state # state')
              => (state = "LoadingCategories" /\ done' = {"categories"})
       /\ (state' = "LoadingContacts" /\ state # state')
              => (state = "LoadingProducts" /\ done' = {"categories", "products"})
       /\ (state' = "LoadingSales" /\ state # state')
              => (state = "LoadingContacts"
                  /\ done' = {"categories", "products", "contacts"})
       /\ (state' = "Ready" /\ state # state')
              => (state = "LoadingSales" /\ done' = AllStages)
       /\ (state' = "LoadingCategories" /\ state # state')
              => (~Loading /\ run' = run + 1)
       /\ (state = "Failed" /\ run' = run) => state' = "Failed"
       /\ (state' = "Failed" /\ state # state') => (Loading /\ done' = done)
      ]_vars

C2_Witness ==
    /\ state = "LoadingSales"
    /\ pos >= 1
    /\ done = {"categories", "products", "contacts"}

\* ------------------------------------------------------------------------
\* C3: a sale record whose create_date is not a string starting with "2024"
\* (missing, or any non-string value) changes none of the four aggregates,
\* and the sales stage continues with the next record.
\* ------------------------------------------------------------------------
C3_OutOfPeriodSkipped ==
    [][(AtSale /\ ~InPeriod(NextRecord(files.sales)))
          => /\ Aggregates(dl') = Aggregates(dl)
             /\ state' = "LoadingSales"
             /\ pos' = pos + 1
      ]_vars

\* the id a reference field carries: the first element of a non-empty list
RefId(field) ==
    IF field # Missing /\ field.t = "list" /\ Len(field.l) > 0
    THEN field.l[1] ELSE None

HasRef(field) == field # Missing /\ field.t = "list" /\ Len(field.l) > 0

\* the (outer, inner) pairs of a nested aggregate and the value at a pair
Entries(m) == UNION {{<<c, p>> : p \in DOMAIN m[c]} : c \in DOMAIN m}

ValueAt(m, c, p) ==
    IF c \in DOMAIN m /\ p \in DOMAIN m[c] THEN m[c][p] ELSE 0

\* the country name the store holds for a customer id
CountryOf(d, customer) ==
    IF Has(d.contact_country_map, customer)
    THEN DictGet(d.contact_country_map, customer, None).name
    ELSE Str(Unknown)

\* ------------------------------------------------------------------------
\* C4: a sale record that passes the period filter and whose product_id is
\* a non-empty list (whatever its first element) raises
\* country_product_sales[country][product] by exactly
\* validate_numeric(product_uom_qty), the entry existing afterwards, and
\* changes no other entry of country_product_sales; country is the name
\* stored for the customer, "Unknown" without one.
\* ------------------------------------------------------------------------
C4_CountryAggregateExact ==
    [][(AtSale /\ InPeriod(NextRecord(files.sales))
               /\ HasRef(NextRecord(files.sales).product_id))
          => LET sale == NextRecord(files.sales)
                 product == RefId(sale.product_id)
                 country == CountryOf(dl, RefId(sale.order_partner_id))
                 quantity == validate_numeric(
                                 GetFieldOr(sale.product_uom_qty, Num(0)), 0)
                 before == AsMap2(dl.country_product_sales)
                 after == AsMap2(dl'.country_product_sales)
             IN  /\ Entries(after) = Entries(before) \cup {<<country, product>>}
                 /\ ValueAt(after, country, product)
                        = ValueAt(before, country, product) + quantity
                 /\ \A e \in Entries(before) \ {<<country, product>>} :
                        ValueAt(after, e[1], e[2]) = ValueAt(before, e[1], e[2])
      ]_vars

\* ------------------------------------------------------------------------
\* C5: after the sales stage of a single load, the keys of client_products
\* are exactly the customer ids of the sale records that passed the period
\* filter and carried a product id, and client_products[c] is exactly the
\* set of product ids of those records of customer c; a qualifying sale
\* without a customer id adds no key.
\* ------------------------------------------------------------------------
C5_ClientProductsExact ==
    (state = "Ready" /\ run = 1)
        => LET recs == files.sales.recs
               Q == {i \in 1..Len(recs) :
                        InPeriod(recs[i]) /\ HasRef(recs[i].product_id)}
               customers == {RefId(recs[i].order_partner_id) : i \in Q} \ {None}
               bought(c) == {RefId(recs[i].product_id) :
                                i \in {j \in Q : RefId(recs[j].order_partner_id) = c}}
           IN  /\ Keys(dl.client_products) = customers
               /\ \A c \in customers :
                      DictGet(dl.client_products, c, {}) = bought(c)

\* ------------------------------------------------------------------------
\* C6: once country_code_map holds a code for a country name, no step
\* changes or removes that entry (the first-seen code wins); a contact
\* record with an id whose country_id pairs a known name with a different
\* code leaves country_code_map unchanged and the contact stage goes on to
\* the next record.
\* ------------------------------------------------------------------------
AtContact == state = "LoadingContacts" /\ pos < Len(files.contacts.recs)

\* the contact pairs a country name the map knows with another code
Conflicting(contact, d) ==
    /\ contact.id # Missing
    /\ contact.country_id # Missing
    /\ contact.country_id.t = "list"
    /\ Len(contact.country_id.l) > 1
    /\ Has(d.country_code_map, contact.country_id.l[2])
    /\ DictGet(d.country_code_map, contact.country_id.l[2], None)
           # contact.country_id.l[1]

C6_FirstCountryCodeWins ==
    [][/\ \A e \in {dl.country_code_map[i] : i \in 1..Len(dl.country_code_map)} :
              /\ Has(dl'.country_code_map, e.k)
              /\ DictGet(dl'.country_code_map, e.k, None) = e.v
       /\ (AtContact /\ Conflicting(NextRecord(files.contacts), dl))
              => /\ dl'.country_code_map = dl.country_code_map
                 /\ state' = "LoadingContacts"
                 /\ pos' = pos + 1
      ]_vars

\* a conflicting contact has been consumed: its own country_ref carries a
\* code other than the one the map kept for the name
C6_Witness ==
    \E i \in 1..Len(dl.contact_country_map) :
        LET ref == dl.contact_country_map[i].v
        IN  /\ Has(dl.country_code_map, ref.name)
            /\ DictGet(dl.country_code_map, ref.name, None) # ref.code

\* ------------------------------------------------------------------------
\* C7: after the product stage, a product has an entry in
\* product_category_map if and only if the categ_id of its record is a
\* list; the entry's id is element 0 (None for the empty list) and its name
\* is element 1, "Unnamed Category" for a list of fewer than two elements.
\* ------------------------------------------------------------------------
C7_CategoryRefIffList ==
    ("products" \in done)
        => \A i \in 1..Len(dl.products) :
              LET id == dl.products[i].k
                  categ_id == GetField(dl.products[i].v.categ_id)
                  ref == DictGet(dl.product_category_map, id, None)
              IN  /\ Has(dl.product_category_map, id) <=> categ_id.t = "list"
                  /\ categ_id.t = "list" =>
                        /\ ref.id = IF Len(categ_id.l) > 0
                                    THEN categ_id.l[1] ELSE None
                        /\ ref.name = IF Len(categ_id.l) > 1
                                      THEN categ_id.l[2]
                                      ELSE Str(UnnamedCategory)

\* ------------------------------------------------------------------------
\* C8: a query is answered with status 503 if and only if the store is not
\* Ready (initialize_data() has not completed its four stages): a Ready
\* store is never answered with 503, a store that is not Ready never with
\* 200.
\* ------------------------------------------------------------------------
C8_UnavailableIffNotReady ==
    (resp.ep # "none") => (resp.status = 503 <=> state # "Ready")

\* ------------------------------------------------------------------------
\* C9: a 200 answer of most_sold_by_category has exactly one row for every
\* category with at least one product in category_product_sales; the row
\* names the product with the largest accumulated quantity of the category,
\* among equals the one whose entry was created first, and carries that
\* quantity and the category total, both rounded; the rows are in
\* descending order of category total.
\* ------------------------------------------------------------------------
Near(rounded, exact) ==
    /\ rounded % 10 = 0
    /\ rounded - exact <= 5
    /\ exact - rounded <= 5

C10_QueriesOnlyRead ==
    [][(run' = run /\ state' = state /\ pos' = pos) => dl' = dl]_vars

\* a most_sold_by_category request has read category_sales for a category
\* and another query has been answered from the same store meanwhile
C10_Witness ==
    /\ qc.pc = "iter"
    /\ Len(qc.results) >= 1
    /\ resp.ep = "client"
    /\ resp.status = 200

\* x >= 0 as Python compares floats
NonNegative(x) == ~IsNaN(x) /\ x >= 0

AllNonNegative(d) ==
    /\ \A i \in 1..Len(d.category_sales) : NonNegative(d.category_sales[i].v)
    /\ \A i \in 1..Len(d.category_product_sales) :
          \A j \in 1..Len(d.category_product_sales[i].v) :
              NonNegative(d.category_product_sales[i].v[j].v)
    /\ \A i \in 1..Len(d.country_product_sales) :
          \A j \in 1..Len(d.country_product_sales[i].v) :
              NonNegative(d.country_product_sales[i].v[j].v)

\* every entry of the float table a is in b with a value that is not less
KeepsFloats(a, b) ==
    \A i \in 1..Len(a) :
        /\ Has(b, a[i].k)
        /\ ~FloatLt(DictGet(b, a[i].k, 0), a[i].v)

KeepsFloats2(a, b) ==
    \A i \in 1..Len(a) :
        /\ Has(b, a[i].k)
        /\ KeepsFloats(a[i].v, DictGet(b, a[i].k, EmptyDict))

\* every product id of every client of a is in that client's set in b
KeepsMembers(a, b) ==
    \A i \in 1..Len(a) :
        /\ Has(b, a[i].k)
        /\ a[i].v \subseteq DictGet(b, a[i].k, {})

AdditiveOnly(a, b) ==
    /\ KeepsFloats(a.category_sales, b.category_sales)
    /\ KeepsFloats2(a.category_product_sales, b.category_product_sales)
    /\ KeepsFloats2(a.country_product_sales, b.country_product_sales)
    /\ KeepsMembers(a.client_products, b.client_products)

\* ------------------------------------------------------------------------
\* C11: while a load runs, every value stored in category_sales,
\* category_product_sales and country_product_sales is non-negative, and
\* no processing step decreases one of these values or removes a product
\* id from a client_products set, whatever the quantity of the record
\* is, a negative or a non-numeric one included.
\* ------------------------------------------------------------------------
C11_NonNegativeAdditive ==
    [][Loading => (AllNonNegative(dl') /\ AdditiveOnly(dl, dl'))]_vars

\* sum(d.values()) over the first n entries of d
RECURSIVE SumValues(_, _)
SumValues(d, n) ==
    IF n = 0 THEN 0 ELSE FloatAdd(SumValues(d, n - 1), d[n].v)

\* a == b as Python compares floats
FloatEq(a, b) == ~IsNaN(a) /\ ~IsNaN(b) /\ a = b

\* ------------------------------------------------------------------------
\* C12: in every state, whatever the sale records and however many loads
\* ran, category_sales and category_product_sales have the same category
\* ids as keys, and for each of them category_sales[c] equals the sum of
\* the values of category_product_sales[c].
\* ------------------------------------------------------------------------
C12_CategoryTotalsAgree ==
    /\ Keys(dl.category_sales) = Keys(dl.category_product_sales)
    /\ \A i \in 1..Len(dl.category_product_sales) :
          LET c == dl.category_product_sales[i].k
              products == dl.category_product_sales[i].v
          IN  FloatEq(DictGet(dl.category_sales, c, 0),
                      SumValues(products, Len(products)))

====
